---------------------------- MODULE Spec2Model ----------------------------
(***************************************************************************)
(* A model of awesome_analyzer: the ingestion run of awesome_scraper.py    *)
(* (extract_github_links, get_github_repo_popularity, save_to_json) and    *)
(* the analysis run of awesome_analyzer.py (load_json_data, filter_data,   *)
(* sort_data).                                                             *)
(*                                                                         *)
(* A URL is a sequence of tokens: a scheme token ("https:", "http:",       *)
(* "ftp:"), the slash "/", or a name (a maximal run of characters holding  *)
(* neither a slash nor a colon).  Concatenating strings is concatenating   *)
(* token sequences, so "https://github.com" + "//github.com/alice/repo"    *)
(* is the sequence of both halves, and a host is "github.com" only when    *)
(* its tokens are exactly <<"github.com">>.                                *)
(***************************************************************************)
EXTENDS Integers, Sequences, FiniteSets, TLC

\* ------------------------------------------------------------------ bounds
\* Longest path (in tokens) of an enumerated URL.
MaxPathLen == 6
\* Most hyperlinks on the scraped page.
MaxLinks == 2
\* Most URLs handed to get_github_repo_popularity directly.
MaxUrls == 3
\* Largest failure budget (the smallest is -1).
MaxBudget == 2
\* Largest star count the metrics API reports.
MaxCount == 2
\* Most rows of a table handed to filter_data or sort_data.
MaxRows == 2
\* Largest value of a column of such a table.
MaxVal == 1
\* Most keys of a mapping written and read back.
MaxKeys == 2

\* ------------------------------------------------------------------- state
VARIABLES
    pc,             \* the position of the run being modelled
    url,            \* is_valid_github_repo_url: the argument
    url_scheme,     \* ... the scheme the argument was written with
    url_host,       \* ... the authority it was written with ("none": no "//")
    url_path,       \* ... the path it was written with
    valid,          \* is_valid_github_repo_url: the value returned
    entry,          \* "main": the ingestion CLI; "fetcher": a direct call
    hrefs,          \* the href of every <a> of the page, in document order
    github_urls,    \* get_github_repo_popularity: the list of URLs
    max_failures,   \* get_github_repo_popularity: the failure budget
    i,              \* the position of the for loop in github_urls
    repo_popularity,      \* the dict under construction, in insertion order
    consecutive_failures, \* the failure counter
    response,       \* the last response received from the metrics API
    reqs,           \* history: what each request for the current URL met
    log,            \* history: the outcome of every attempted URL
    file,           \* the snapshot file, a JSON text (<<>>: no file)
    df,             \* the table: a sequence of rows
    bounds,         \* filter_data: the six optional bounds
    result,         \* filter_data: the table returned
    sort_by,        \* sort_data: the column
    ascending,      \* sort_data: the direction
    sorted          \* sort_data: the table returned

validVars == <<url, url_scheme, url_host, url_path, valid>>
ingestVars ==
    <<entry, hrefs, github_urls, max_failures, i, repo_popularity,
      consecutive_failures, response, reqs, log, file>>
analysisVars == <<df, bounds, result, sort_by, ascending, sorted>>
vars == <<pc, validVars, ingestVars, analysisVars>>

\* ------------------------------------------------------------- URL parsing
SLASH == "/"
SchemeTokens == {"https:", "http:", "ftp:"}

\* awesome_scraper.py:13-23
BLACKLISTED_OWNERS ==
    {"features", "login", "explore", "marketplace", "topics", "collections",
     "enterprise", "solutions", "sponsors"}

\* The suffix of s from position k on.
DropFirst(s, k) == SubSeq(s, k + 1, Len(s))

\* Position of the first slash of s, or Len(s) + 1.
RECURSIVE FirstSlash(_, _)
FirstSlash(s, k) ==
    IF k > Len(s) THEN k
    ELSE IF s[k] = SLASH THEN k ELSE FirstSlash(s, k + 1)

\* urllib.parse.urlparse, for URLs without query and fragment: the scheme
\* is a leading scheme token; the netloc is what follows a leading "//" up
\* to the next slash; the path is the rest.
urlparse(u) ==
    LET hasScheme == Len(u) > 0 /\ u[1] \in SchemeTokens
        rest == IF hasScheme THEN Tail(u) ELSE u
        hasNetloc == Len(rest) >= 2 /\ rest[1] = SLASH /\ rest[2] = SLASH
        after == IF hasNetloc THEN DropFirst(rest, 2) ELSE rest
        cut == FirstSlash(after, 1)
    IN  [scheme |-> IF hasScheme THEN u[1] ELSE "",
         netloc |-> IF hasNetloc THEN SubSeq(after, 1, cut - 1) ELSE <<>>,
         path   |-> IF hasNetloc THEN DropFirst(after, cut - 1) ELSE rest]

\* str.strip("/"): every leading and every trailing slash removed.
RECURSIVE LStrip(_)
LStrip(s) == IF Len(s) > 0 /\ Head(s) = SLASH THEN LStrip(Tail(s)) ELSE s

RECURSIVE RStrip(_)
RStrip(s) ==
    IF Len(s) > 0 /\ s[Len(s)] = SLASH THEN RStrip(SubSeq(s, 1, Len(s) - 1))
    ELSE s

strip(s) == RStrip(LStrip(s))

\* str.split("/"): the pieces between the slashes, an empty piece included;
\* the empty string splits into one empty piece.
RECURSIVE split(_)
split(s) ==
    LET cut == FirstSlash(s, 1)
    IN  IF cut > Len(s) THEN <<s>>
        ELSE <<SubSeq(s, 1, cut - 1)>> \o split(DropFirst(s, cut))

\* path_parts = parsed_url.path.strip("/").split("/")
path_parts(u) == split(strip(urlparse(u).path))

\* owner in BLACKLISTED_OWNERS: the owner is one of the listed strings.
InBlacklist(owner) == Len(owner) = 1 /\ owner[1] \in BLACKLISTED_OWNERS

\* The validity check with the fetcher's shape test (line 150) in place of
\* its own: two segments or more.
is_valid_two_or_more(u) ==
    /\ urlparse(u).netloc = <<"github.com">>
    /\ Len(path_parts(u)) >= 2
    /\ ~InBlacklist(path_parts(u)[1])

\* awesome_scraper.py:42-57
is_valid_github_repo_url(u) ==
    /\ urlparse(u).netloc = <<"github.com">>
    /\ Len(path_parts(u)) = 2
    /\ ~InBlacklist(path_parts(u)[1])

\* ------------------------------------------------- variables not in use
NoResponse == [status |-> 0, remaining |-> "absent", json |-> FALSE,
               stargazers_count |-> 0, forks_count |-> 0, watchers_count |-> 0]

IdleValid ==
    /\ url = <<>>
    /\ url_scheme = ""
    /\ url_host = "none"
    /\ url_path = <<>>
    /\ valid = FALSE

IdleIngest ==
    /\ entry = "none"
    /\ hrefs = <<>>
    /\ github_urls = <<>>
    /\ max_failures = 0
    /\ i = 0
    /\ repo_popularity = <<>>
    /\ consecutive_failures = 0
    /\ response = NoResponse
    /\ reqs = <<>>
    /\ log = <<>>
    /\ file = <<>>

\* An optional argument left at its default, None.
None == [given |-> FALSE, value |-> 0]
NoBounds ==
    [min_stars |-> None, max_stars |-> None, min_forks |-> None,
     max_forks |-> None, min_watchers |-> None, max_watchers |-> None]

IdleAnalysis ==
    /\ df = <<>>
    /\ bounds = NoBounds
    /\ result = <<>>
    /\ sort_by = "stars"
    /\ ascending = FALSE
    /\ sorted = <<>>

\* --------------------------------------------- the validity check, alone
NameTokens == {"features", "alice", "repo"}
PathTokens == {SLASH} \cup NameTokens
Hosts == {"none", "", "github.com", "example.com"}
Schemes == {"", "https:", "ftp:"}

\* Two names in a row are one longer name: a path is written with a slash
\* between any two names.
Lexed(p) ==
    \A k \in 1..(Len(p) - 1) : ~(p[k] \in NameTokens /\ p[k + 1] \in NameTokens)

\* The text of a URL with the given scheme, authority and path.
Compose(s, h, p) ==
    (IF s = "" THEN <<>> ELSE <<s>>)
    \o (IF h = "none" THEN <<>> ELSE <<SLASH, SLASH>>)
    \o (IF h \in {"none", ""} THEN <<>> ELSE <<h>>)
    \o p

\* A path that follows an authority is empty or starts with a slash; a path
\* that follows none does not start with two (they would open an authority).
WellFormed(h, p) ==
    IF h = "none"
    THEN ~(Len(p) >= 2 /\ p[1] = SLASH /\ p[2] = SLASH)
    ELSE IF Len(p) = 0 THEN TRUE ELSE p[1] = SLASH

InitValid ==
    /\ pc = "url"
    /\ url_scheme \in Schemes
    /\ url_host \in Hosts
    /\ \E n \in 0..MaxPathLen :
          \E p \in [1..n -> PathTokens] :
              /\ Lexed(p)
              /\ WellFormed(url_host, p)
              /\ url_path = p
    /\ url = Compose(url_scheme, url_host, url_path)
    /\ valid = FALSE
    /\ IdleIngest
    /\ IdleAnalysis

\* The validity check leaves the other runs' variables alone.
ValidFrame == UNCHANGED <<ingestVars, analysisVars>>

\* awesome_scraper.py:42-57, called on its own
CheckUrl ==
    /\ pc = "url"
    /\ valid' = is_valid_github_repo_url(url)
    /\ pc' = "checked"
    /\ UNCHANGED <<url, url_scheme, url_host, url_path>>
    /\ ValidFrame

NextValid == CheckUrl

SpecValid == InitValid /\ [][NextValid]_vars

\* ------------------------------------------ claims on the validity check
\* The path is a slash, a segment, a slash, a segment, and at most one
\* closing slash: two segments, none of them empty.
TwoSegments(p) ==
    /\ Len(p) \in {4, 5}
    /\ p[1] = SLASH /\ p[2] # SLASH /\ p[3] = SLASH /\ p[4] # SLASH
    /\ Len(p) = 5 => p[5] = SLASH

\* Position of the first token of p that is not a slash, or Len(p) + 1.
RECURSIVE FirstName(_, _)
FirstName(p, k) ==
    IF k > Len(p) THEN k ELSE IF p[k] # SLASH THEN k ELSE FirstName(p, k + 1)

\* The path is two segments with one slash between them, between any number
\* of leading and of trailing slashes.
TwoSegmentsBetweenSlashes(p) ==
    LET j == FirstName(p, 1)
    IN  /\ j + 2 <= Len(p)
        /\ p[j + 1] = SLASH
        /\ p[j + 2] # SLASH
        /\ \A k \in (j + 3)..Len(p) : p[k] = SLASH

\* C4 as stated: the check returns true if and only if the host is exactly
\* github.com, the path consists of exactly two non-empty segments, and the
\* first is not blacklisted; an empty segment makes it false.
C4_ValidIffTwoSegments ==
    pc = "checked" =>
        (valid <=> /\ url_host = "github.com"
                   /\ TwoSegments(url_path)
                   /\ url_path[2] \notin BLACKLISTED_OWNERS)

\* C4, amended: the check returns true if and only if the host is exactly
\* github.com, the path with its leading and trailing slashes removed
\* consists of exactly two non-empty segments, and the first is not
\* blacklisted.
C4_ValidIffTwoSegmentsStripped ==
    pc = "checked" =>
        (valid <=> /\ url_host = "github.com"
                   /\ TwoSegmentsBetweenSlashes(url_path)
                   /\ url_path[FirstName(url_path, 1)] \notin BLACKLISTED_OWNERS)

\* A URL found valid whose path opens with an empty segment.
C4_Witness ==
    /\ pc = "checked"
    /\ valid
    /\ url_path = <<SLASH, SLASH, "alice", SLASH, "repo">>

\* ------------------------------------------------------------- JSON text
\* A JSON text is a sequence of tokens: punctuation, strings and numbers.
Punct(x) == [t |-> "p", v |-> x]
Str(x) == [t |-> "s", v |-> x]
Num(x) == [t |-> "n", v |-> x]
IsP(tok, x) == tok.t = "p" /\ tok.v = x

DumpRecord(r) ==
    <<Punct("{"), Str("stars"), Punct(":"), Num(r.stars), Punct(","),
      Str("forks"), Punct(":"), Num(r.forks), Punct(","),
      Str("watchers"), Punct(":"), Num(r.watchers), Punct("}")>>

RECURSIVE DumpMembers(_)
DumpMembers(d) ==
    IF Len(d) = 0 THEN <<>>
    ELSE <<Str(Head(d).key), Punct(":")>> \o DumpRecord(Head(d).value)
         \o (IF Len(d) > 1 THEN <<Punct(",")>> ELSE <<>>)
         \o DumpMembers(Tail(d))

\* json.dump(data, json_file, indent=4, ensure_ascii=False): the members in
\* the dict's insertion order.
JsonDump(d) == <<Punct("{")>> \o DumpMembers(d) \o <<Punct("}")>>

NoFields == [x \in {} |-> 0]

\* The members of an inner object from the name at position k on.
RECURSIVE ParseFields(_, _, _)
ParseFields(toks, k, acc) ==
    LET got == acc @@ (toks[k].v :> toks[k + 2].v)
    IN  IF IsP(toks[k + 3], ",") THEN ParseFields(toks, k + 4, got)
        ELSE [val |-> got, next |-> k + 4]

\* The inner object whose "{" is at position k.
ParseRecord(toks, k) ==
    IF IsP(toks[k + 1], "}") THEN [val |-> NoFields, next |-> k + 2]
    ELSE ParseFields(toks, k + 1, NoFields)

\* The members of the outer object from the key at position k on.
RECURSIVE ParseMembers(_, _, _)
ParseMembers(toks, k, acc) ==
    LET rec == ParseRecord(toks, k + 2)
        got == Append(acc, [key |-> toks[k].v, value |-> rec.val])
    IN  IF IsP(toks[rec.next], ",") THEN ParseMembers(toks, rec.next + 1, got)
        ELSE got

\* json.load(f): a dict, its keys in the order of the text.
JsonLoad(toks) ==
    IF IsP(toks[2], "}") THEN <<>> ELSE ParseMembers(toks, 2, <<>>)

\* --------------------------------------------------------- a Python dict
\* A dict is the sequence of its items [key, value] in insertion order.
DictKeys(d) == {d[k].key : k \in 1..Len(d)}
DictHas(d, key) == key \in DictKeys(d)
DictIndex(d, key) == CHOOSE k \in 1..Len(d) : d[k].key = key
DictGet(d, key) == d[DictIndex(d, key)].value

\* dict.setdefault in place of an assignment: the first value is kept.
DictSetDefault(d, key, value) ==
    IF DictHas(d, key) THEN d ELSE Append(d, [key |-> key, value |-> value])

\* d[key] = value
DictSet(d, key, value) ==
    IF DictHas(d, key) THEN [d EXCEPT ![DictIndex(d, key)].value = value]
    ELSE Append(d, [key |-> key, value |-> value])

\* ------------------------------------------------------ the link extractor
\* str.startswith("http")
StartsWithHttp(h) == Len(h) > 0 /\ h[1] \in {"http:", "https:"}

\* f"https://github.com{link['href']}"
PrefixHost(h) == <<"https:", SLASH, SLASH, "github.com">> \o h

\* awesome_scraper.py:80-88: the list comprehension.
RECURSIVE github_links(_)
github_links(all_links) ==
    IF Len(all_links) = 0 THEN <<>>
    ELSE LET href == Head(all_links)
         IN  (IF is_valid_github_repo_url(href)
              THEN <<IF StartsWithHttp(href) THEN href ELSE PrefixHost(href)>>
              ELSE <<>>)
             \o github_links(Tail(all_links))

\* awesome_scraper.py:60-90
extract_github_links(status_code, all_links) ==
    IF status_code # 200 THEN <<>> ELSE github_links(all_links)

\* ------------------------------------------------------ the metrics fetcher
\* What the metrics API may answer: a status, the X-RateLimit-Remaining
\* header (absent, a number, or not a number), and a body that is a JSON
\* object with the three counts or is not JSON at all.
Responses ==
    [status : {200, 404}, remaining : {"absent", "0", "1", "malformed"},
     json : {TRUE}, stargazers_count : 1..MaxCount, forks_count : {0},
     watchers_count : {0}]
    \cup
    [status : {200, 404}, remaining : {"absent", "0", "1", "malformed"},
     json : {FALSE}, stargazers_count : {0}, forks_count : {0},
     watchers_count : {0}]

\* int(response.headers.get(name, default)) for a header that is a number.
IntHeader(h, default) ==
    IF h = "absent" THEN default ELSE IF h = "0" THEN 0 ELSE 1

\* awesome_scraper.py:26-39: TRUE after sleeping until the reset time.
check_rate_limit(r) == IntHeader(r.remaining, 0) = 0

\* awesome_scraper.py:162-171
Record(r) ==
    [stars |-> r.stargazers_count, forks |-> r.forks_count,
     watchers |-> r.watchers_count]

NoRecord == [stars |-> 0, forks |-> 0, watchers |-> 0]

\* The counter is left as it is after a success.
KeepCounter(cf) == cf

\* awesome_scraper.py:172-174
CounterAfterSuccess(cf) == 0

\* awesome_scraper.py:179, 182, 191
CounterAfterFailure(cf) == cf + 1

\* The cutoff with a strict comparison.
CutoffStrict(cf) == cf > max_failures

\* awesome_scraper.py:184, 193
Cutoff(cf) == cf >= max_failures

\* The end of one pass of the loop body: the cutoff test, then the next URL.
EndOfPass(cf, outcome, rec) ==
    /\ consecutive_failures' = cf
    /\ log' = Append(log, [idx |-> i, outcome |-> outcome, rec |-> rec])
    /\ IF Cutoff(cf) THEN pc' = "return" /\ i' = i
       ELSE pc' = "loop" /\ i' = i + 1

\* awesome_scraper.py:162-174, 184-188
Success(r) ==
    /\ repo_popularity' = DictSet(repo_popularity, github_urls[i], Record(r))
    /\ EndOfPass(CounterAfterSuccess(consecutive_failures), "ok", Record(r))

\* awesome_scraper.py:175-188 (a bad status, a malformed URL) and 189-197 (an
\* exception).
Failure ==
    /\ repo_popularity' = repo_popularity
    /\ EndOfPass(CounterAfterFailure(consecutive_failures), "fail", NoRecord)

\* awesome_scraper.py:161-179; response.json() raises on a body that is not
\* JSON.
HandleResponse(r) ==
    IF r.status = 200 /\ r.json THEN Success(r) ELSE Failure

AtUrl == pc = "loop" /\ i <= Len(github_urls)

\* The ingestion run leaves the other runs' variables alone.
IngestFrame == UNCHANGED <<validVars, analysisVars>>

\* awesome_scraper.py:150, 180-182
MalformedUrl ==
    /\ IngestFrame
    /\ AtUrl
    /\ Len(path_parts(github_urls[i])) < 2
    /\ reqs' = <<>>
    /\ Failure
    /\ UNCHANGED <<entry, hrefs, github_urls, max_failures, response, file>>

\* awesome_scraper.py:154: requests.get raises.
FirstRequestRaises ==
    /\ IngestFrame
    /\ AtUrl
    /\ Len(path_parts(github_urls[i])) >= 2
    /\ reqs' = <<"raised">>
    /\ Failure
    /\ UNCHANGED <<entry, hrefs, github_urls, max_failures, response, file>>

\* awesome_scraper.py:154-156: the request is answered; check_rate_limit
\* raises on a header that is not a number, or sleeps and has the request
\* repeated, or lets the response through.
FirstRequest ==
    /\ IngestFrame
    /\ AtUrl
    /\ Len(path_parts(github_urls[i])) >= 2
    /\ \E r \in Responses :
        /\ response' = r
        /\ reqs' = <<r.remaining>>
        /\ IF r.remaining = "malformed" THEN Failure
           ELSE IF check_rate_limit(r)
                THEN /\ pc' = "retry"
                     /\ UNCHANGED <<i, consecutive_failures, log, repo_popularity>>
                ELSE HandleResponse(r)
    /\ UNCHANGED <<entry, hrefs, github_urls, max_failures, file>>

\* awesome_scraper.py:157-159: the repeated request raises.
RetryRaises ==
    /\ IngestFrame
    /\ pc = "retry"
    /\ reqs' = Append(reqs, "raised")
    /\ Failure
    /\ UNCHANGED <<entry, hrefs, github_urls, max_failures, response, file>>

\* awesome_scraper.py:157-161: the repeated request is answered.
RetryRequest ==
    /\ IngestFrame
    /\ pc = "retry"
    /\ \E r \in Responses :
        /\ response' = r
        /\ reqs' = Append(reqs, r.remaining)
        /\ HandleResponse(r)
    /\ UNCHANGED <<entry, hrefs, github_urls, max_failures, file>>

\* awesome_scraper.py:143, 199: the list is exhausted.
LoopEnd ==
    /\ IngestFrame
    /\ pc = "loop"
    /\ i > Len(github_urls)
    /\ pc' = "return"
    /\ UNCHANGED ingestVars

\* A direct call returns the dict.
Return ==
    /\ IngestFrame
    /\ pc = "return"
    /\ entry = "fetcher"
    /\ pc' = "returned"
    /\ UNCHANGED ingestVars

\* ------------------------------------------------------- the ingestion CLI
\* awesome_scraper.py:257-267
ExtractLinks ==
    /\ IngestFrame
    /\ pc = "extract"
    /\ \E status_code \in {200, 404} :
        /\ github_urls' = extract_github_links(status_code, hrefs)
        /\ IF Len(github_urls') = 0 THEN pc' = "exit" /\ i' = i
           ELSE pc' = "loop" /\ i' = 1
    /\ UNCHANGED <<entry, hrefs, max_failures, repo_popularity,
                   consecutive_failures, response, reqs, log, file>>

\* awesome_scraper.py:202-216, 269-274
SaveToJson ==
    /\ IngestFrame
    /\ pc = "return"
    /\ entry \in {"main", "save"}
    /\ file' = JsonDump(repo_popularity)
    /\ pc' = "saved"
    /\ UNCHANGED <<entry, hrefs, github_urls, max_failures, i, repo_popularity,
                   consecutive_failures, response, reqs, log>>

\* awesome_scraper.py:217-218: the write fails and is only reported.
SaveFails ==
    /\ IngestFrame
    /\ pc = "return"
    /\ entry \in {"main", "save"}
    /\ pc' = "save_failed"
    /\ UNCHANGED ingestVars

\* Hyperlink targets: an absolute repository URL, the same without its
\* scheme, a path on the page's own host, a reserved section of the site,
\* another host.
HrefSamples ==
    {<<"https:", SLASH, SLASH, "github.com", SLASH, "alice", SLASH, "repo">>,
     <<SLASH, SLASH, "github.com", SLASH, "alice", SLASH, "repo">>,
     <<SLASH, "alice", SLASH, "repo">>,
     <<"https:", SLASH, SLASH, "github.com", SLASH, "features", SLASH, "repo">>,
     <<"https:", SLASH, SLASH, "example.com", SLASH, "alice", SLASH, "repo">>}

\* URLs of a direct call: two repositories and a URL with a single segment.
UrlSamples ==
    {<<"https:", SLASH, SLASH, "github.com", SLASH, "alice", SLASH, "repo">>,
     <<"https:", SLASH, SLASH, "github.com", SLASH, "bob", SLASH, "repo">>,
     <<"https:", SLASH, SLASH, "github.com", SLASH, "alice">>}

SeqsUpTo(S, n) == UNION {[1..k -> S] : k \in 0..n}

Budgets == -1..MaxBudget

InitIngest ==
    /\ max_failures \in Budgets
    /\ repo_popularity = <<>>
    /\ consecutive_failures = 0
    /\ response = NoResponse
    /\ reqs = <<>>
    /\ log = <<>>
    /\ file = <<>>

InitMain ==
    /\ pc = "extract"
    /\ entry = "main"
    /\ hrefs \in SeqsUpTo(HrefSamples, MaxLinks)
    /\ github_urls = <<>>
    /\ i = 0
    /\ InitIngest

InitFetcher ==
    /\ pc = "loop"
    /\ entry = "fetcher"
    /\ hrefs = <<>>
    /\ github_urls \in SeqsUpTo(UrlSamples, MaxUrls)
    /\ i = 1
    /\ InitIngest

Init == (InitMain \/ InitFetcher) /\ IdleValid /\ IdleAnalysis

Next ==
    \/ ExtractLinks
    \/ MalformedUrl
    \/ FirstRequestRaises
    \/ FirstRequest
    \/ RetryRaises
    \/ RetryRequest
    \/ LoopEnd
    \/ Return
    \/ SaveToJson
    \/ SaveFails

Spec == Init /\ [][Next]_vars

\* ------------------------------------------- claims on the ingestion run
\* The fetcher has left its loop.
Finished == pc \in {"return", "returned", "saved", "save_failed"}

\* The loop was left by break: the for loop still stands on a URL.
StoppedByCutoff == Finished /\ i <= Len(github_urls)

\* The failures in a row up to and including the k-th attempt.
RECURSIVE FailRun(_)
FailRun(k) ==
    IF k = 0 THEN 0
    ELSE IF log[k].outcome = "ok" THEN 0 ELSE 1 + FailRun(k - 1)

\* The attempts at `key` that succeeded.
OkAttempts(key) ==
    {k \in 1..Len(log) : log[k].outcome = "ok" /\ github_urls[k] = key}

Smallest(ks) == CHOOSE k \in ks : \A m \in ks : k <= m
Largest(ks) == CHOOSE k \in ks : \A m \in ks : k >= m

Outcomes == [k \in 1..Len(log) |-> log[k].outcome]

\* C1: the fetcher stops exactly at the first URL at which the failures in
\* a row (a success resetting the count) reach the budget: the URLs are
\* attempted in order up to and including that one, none after it; it does
\* not stop while the run is shorter than the budget; and the mapping holds
\* the record of every URL that succeeded.
C1_StopsAtBudget ==
    /\ Len(log) <= Len(github_urls)
    /\ \A k \in 1..Len(log) : log[k].idx = k
    /\ \A k \in 1..(Len(log) - 1) : FailRun(k) < max_failures
    /\ (Len(log) > 0 /\ FailRun(Len(log)) >= max_failures) => StoppedByCutoff
    /\ StoppedByCutoff =>
          Len(log) = i /\ FailRun(Len(log)) >= max_failures
    /\ (Finished /\ ~StoppedByCutoff) => Len(log) = Len(github_urls)
    /\ \A k \in 1..Len(log) :
          log[k].outcome = "ok" =>
              /\ DictHas(repo_popularity, github_urls[k])
              /\ DictGet(repo_popularity, github_urls[k])
                    = log[Largest(OkAttempts(github_urls[k]))].rec
    /\ \A key \in DictKeys(repo_popularity) : OkAttempts(key) # {}

\* A budget of two: a success, then two failures in a row, and the loop is
\* left at the third URL with the first URL's record kept.
C1_Witness ==
    /\ max_failures = 2
    /\ StoppedByCutoff
    /\ Outcomes = <<"ok", "fail", "fail">>
    /\ DictHas(repo_popularity, github_urls[1])

\* The last response received for the current URL decides its outcome: a
\* record for a 200 whose body is JSON, a failure otherwise.
DecidedByLastResponse ==
    (/\ pc # "retry"
     /\ Len(reqs) > 0
     /\ reqs[Len(reqs)] # "raised"
     /\ reqs # <<"malformed">>)
    => (log[Len(log)].outcome = "ok" <=> (response.status = 200 /\ response.json))

\* C2: a second request for a URL is issued only if the first response
\* reports a remaining quota of zero, and then exactly once; a third
\* request is never issued; the URL's outcome is decided by the last
\* response received.
C2_RetryOnlyOnZeroRemaining ==
    /\ Len(reqs) <= 2
    /\ Len(reqs) = 2 => reqs[1] = "0"
    /\ (pc # "retry" /\ Len(reqs) = 1) => reqs[1] # "0"
    /\ DecidedByLastResponse

\* C3: every key of the snapshot written by an ingestion run satisfies
\* is_valid_github_repo_url.
C3_SnapshotKeysValid ==
    (entry = "main" /\ pc = "saved") =>
        \A key \in DictKeys(JsonLoad(file)) : is_valid_github_repo_url(key)

\* C5 as stated: the value stored under a key is the value that was first
\* written for it.
C5_FirstWrittenKept ==
    \A key \in DictKeys(repo_popularity) :
        /\ OkAttempts(key) # {}
        /\ DictGet(repo_popularity, key) = log[Smallest(OkAttempts(key))].rec

\* C5, amended: the value stored under a key is the value written by the
\* latest successful fetch of that URL: a record changes only when a later
\* occurrence of the same URL succeeds again, and a URL that succeeded once
\* keeps the value first written.
C5_LastWrittenKept ==
    \A key \in DictKeys(repo_popularity) :
        /\ OkAttempts(key) # {}
        /\ DictGet(repo_popularity, key) = log[Largest(OkAttempts(key))].rec
        /\ Cardinality(OkAttempts(key)) = 1 =>
              DictGet(repo_popularity, key) = log[Smallest(OkAttempts(key))].rec

\* The same URL fetched twice with two different answers, and a later
\* attempt after both.
C5_Witness ==
    /\ Len(log) = 3
    /\ github_urls[1] = github_urls[2]
    /\ log[1].outcome = "ok"
    /\ log[2].outcome = "ok"
    /\ log[1].rec # log[2].rec
    /\ DictGet(repo_popularity, github_urls[1]) = log[2].rec

\* C10: with a budget of zero or less and a URL to fetch, the fetcher
\* attempts exactly one URL and stops, whatever the outcome; a success is
\* returned.
C10_NonPositiveBudgetOneAttempt ==
    (max_failures <= 0 /\ Len(github_urls) > 0) =>
        /\ Len(log) <= 1
        /\ pc \in {"loop", "retry"} => (Len(log) = 0 /\ i = 1)
        /\ Finished =>
              /\ Len(log) = 1
              /\ StoppedByCutoff
              /\ log[1].outcome = "ok" =>
                    repo_popularity
                        = <<[key |-> github_urls[1], value |-> log[1].rec]>>
              /\ log[1].outcome = "fail" => repo_popularity = <<>>

\* A budget of zero, several URLs, and the first one succeeded.
C10_Witness ==
    /\ max_failures = 0
    /\ Len(github_urls) >= 2
    /\ Finished
    /\ Len(log) = 1
    /\ log[1].outcome = "ok"

\* ---------------------------------------------------- the snapshot loader
\* The row without the rename of the index column.
RowNotRenamed(item) == ("index" :> item.key) @@ item.value

\* awesome_analyzer.py:28-30: one row per top-level key, the key in the
\* column "url" and each field of the key's object in the column of its name.
Row(item) == ("url" :> item.key) @@ item.value

\* awesome_analyzer.py:24-32
load_json_data(text) ==
    LET data == JsonLoad(text)
    IN  [k \in 1..Len(data) |-> Row(data[k])]

\* ------------------------------------------- writing, then reading back
Vals == 0..MaxVal
Records == [stars : Vals, forks : Vals, watchers : Vals]

\* The sequences without a repeated element.
Distinct(q) == \A j, k \in 1..Len(q) : j # k => q[j] # q[k]

\* The dict of the given keys and values, in that order.
Mapping(ks, vs) == [k \in 1..Len(ks) |-> [key |-> ks[k], value |-> vs[k]]]

\* The analysis run leaves the other runs' variables alone.
LoadFrame == UNCHANGED <<validVars, ingestVars>>

\* awesome_analyzer.py:19-32
LoadJsonData ==
    /\ LoadFrame
    /\ pc = "saved"
    /\ df' = load_json_data(file)
    /\ pc' = "loaded"
    /\ UNCHANGED <<bounds, result, sort_by, ascending, sorted>>

\* awesome_analyzer.py:21-22: FileNotFoundError.
LoadMissing ==
    /\ LoadFrame
    /\ pc = "save_failed"
    /\ pc' = "not_found"
    /\ UNCHANGED analysisVars

InitRoundTrip ==
    /\ pc = "return"
    /\ entry = "save"
    /\ \E n \in 0..MaxKeys :
          \E ks \in [1..n -> UrlSamples], vs \in [1..n -> Records] :
              /\ Distinct(ks)
              /\ repo_popularity = Mapping(ks, vs)
    /\ hrefs = <<>>
    /\ github_urls = <<>>
    /\ max_failures = 0
    /\ i = 0
    /\ consecutive_failures = 0
    /\ response = NoResponse
    /\ reqs = <<>>
    /\ log = <<>>
    /\ file = <<>>
    /\ IdleValid
    /\ IdleAnalysis

NextRoundTrip ==
    \/ SaveToJson
    \/ SaveFails
    \/ LoadJsonData
    \/ LoadMissing

SpecRoundTrip == InitRoundTrip /\ [][NextRoundTrip]_vars

\* C9: writing a mapping with save_to_json and reading the file with
\* load_json_data yields exactly one row per key, with the key in the url
\* field and the record's stars, forks and watchers in the fields of those
\* names, and no other rows.
C9_RoundTrip ==
    pc = "loaded" =>
        /\ Len(df) = Len(repo_popularity)
        /\ \A k \in 1..Len(df) :
              /\ DOMAIN df[k] = {"url", "stars", "forks", "watchers"}
              /\ DictHas(repo_popularity, df[k]["url"])
        /\ \A key \in DictKeys(repo_popularity) :
              /\ Cardinality({k \in 1..Len(df) : df[k]["url"] = key}) = 1
              /\ \A k \in 1..Len(df) :
                    df[k]["url"] = key =>
                        /\ df[k]["stars"] = DictGet(repo_popularity, key).stars
                        /\ df[k]["forks"] = DictGet(repo_popularity, key).forks
                        /\ df[k]["watchers"] = DictGet(repo_popularity, key).watchers

\* A mapping of two keys whose records differ in every field, read back.
C9_Witness ==
    /\ pc = "loaded"
    /\ Len(repo_popularity) = 2
    /\ Len(df) = 2
    /\ repo_popularity[1].value = [stars |-> 1, forks |-> 0, watchers |-> 1]
    /\ repo_popularity[2].value = [stars |-> 0, forks |-> 1, watchers |-> 0]

\* ------------------------------------------------------------ the filter
Columns == {"stars", "forks", "watchers"}

\* The URLs of the rows of a table, by position.
RowUrls ==
    <<<<"https:", SLASH, SLASH, "github.com", SLASH, "alice", SLASH, "repo">>,
      <<"https:", SLASH, SLASH, "github.com", SLASH, "bob", SLASH, "repo">>,
      <<"https:", SLASH, SLASH, "github.com", SLASH, "carol", SLASH, "repo">>,
      <<"https:", SLASH, SLASH, "github.com", SLASH, "dave", SLASH, "repo">>>>

\* The table of the given rows of values, the k-th under the k-th URL.
Table(vs) == [k \in 1..Len(vs) |-> ("url" :> RowUrls[k]) @@ vs[k]]

\* A bound of the command line: omitted, or one of two thresholds.
Thresholds == {0, 1}
Bound == {None} \cup [given : {TRUE}, value : Thresholds]
AllBounds ==
    [min_stars : Bound, max_stars : Bound, min_forks : Bound,
     max_forks : Bound, min_watchers : Bound, max_watchers : Bound]

\* df[df[col] >= v]: the rows that hold, in their order.
AtLeast(t, col, v) == SelectSeq(t, LAMBDA r : r[col] >= v)

\* df[df[col] <= v]
AtMost(t, col, v) == SelectSeq(t, LAMBDA r : r[col] <= v)

\* The filter with max_forks compared strictly.
filter_data_strict(t, b) ==
    LET d1 == IF b.min_stars.given THEN AtLeast(t, "stars", b.min_stars.value) ELSE t
        d2 == IF b.max_stars.given THEN AtMost(d1, "stars", b.max_stars.value) ELSE d1
        d3 == IF b.min_forks.given THEN AtLeast(d2, "forks", b.min_forks.value) ELSE d2
        d4 == IF b.max_forks.given
              THEN SelectSeq(d3, LAMBDA r : r["forks"] < b.max_forks.value) ELSE d3
        d5 == IF b.min_watchers.given
              THEN AtLeast(d4, "watchers", b.min_watchers.value) ELSE d4
    IN  IF b.max_watchers.given THEN AtMost(d5, "watchers", b.max_watchers.value)
        ELSE d5

\* The filter with min_stars taken for a maximum.
filter_data_min_as_max(t, b) ==
    LET d1 == IF b.min_stars.given THEN AtMost(t, "stars", b.min_stars.value) ELSE t
        d2 == IF b.max_stars.given THEN AtMost(d1, "stars", b.max_stars.value) ELSE d1
        d3 == IF b.min_forks.given THEN AtLeast(d2, "forks", b.min_forks.value) ELSE d2
        d4 == IF b.max_forks.given THEN AtMost(d3, "forks", b.max_forks.value) ELSE d3
        d5 == IF b.min_watchers.given
              THEN AtLeast(d4, "watchers", b.min_watchers.value) ELSE d4
    IN  IF b.max_watchers.given THEN AtMost(d5, "watchers", b.max_watchers.value)
        ELSE d5

\* awesome_analyzer.py:59-74
filter_data(t, b) ==
    LET d1 == IF b.min_stars.given THEN AtLeast(t, "stars", b.min_stars.value) ELSE t
        d2 == IF b.max_stars.given THEN AtMost(d1, "stars", b.max_stars.value) ELSE d1
        d3 == IF b.min_forks.given THEN AtLeast(d2, "forks", b.min_forks.value) ELSE d2
        d4 == IF b.max_forks.given THEN AtMost(d3, "forks", b.max_forks.value) ELSE d3
        d5 == IF b.min_watchers.given
              THEN AtLeast(d4, "watchers", b.min_watchers.value) ELSE d4
    IN  IF b.max_watchers.given THEN AtMost(d5, "watchers", b.max_watchers.value)
        ELSE d5

\* awesome_analyzer.py:35-74, 136-144
FilterData ==
    /\ LoadFrame
    /\ pc = "loaded"
    /\ \E b \in AllBounds :
        /\ bounds' = b
        /\ result' = filter_data(df, b)
    /\ pc' = "filtered"
    /\ UNCHANGED <<df, sort_by, ascending, sorted>>

InitFilter ==
    /\ pc = "loaded"
    /\ \E n \in 0..MaxRows : \E vs \in [1..n -> Records] : df = Table(vs)
    /\ bounds = NoBounds
    /\ result = <<>>
    /\ sort_by = "stars"
    /\ ascending = FALSE
    /\ sorted = <<>>
    /\ IdleValid
    /\ IdleIngest

NextFilter == FilterData

SpecFilter == InitFilter /\ [][NextFilter]_vars

\* The row satisfies every bound that is given, as an inclusive comparison.
Holds(r, b) ==
    /\ b.min_stars.given => r["stars"] >= b.min_stars.value
    /\ b.max_stars.given => r["stars"] <= b.max_stars.value
    /\ b.min_forks.given => r["forks"] >= b.min_forks.value
    /\ b.max_forks.given => r["forks"] <= b.max_forks.value
    /\ b.min_watchers.given => r["watchers"] >= b.min_watchers.value
    /\ b.max_watchers.given => r["watchers"] <= b.max_watchers.value

\* The position in the table t of its row of the given URL.
PosIn(t, u) == CHOOSE k \in 1..Len(t) : t[k]["url"] = u

\* C6: filter_data returns exactly the rows for which every given bound
\* holds as an inclusive comparison, in their input order; an omitted bound
\* excludes no row.
C6_FilterExact ==
    pc = "filtered" =>
        /\ \A j \in 1..Len(result) :
              \E k \in 1..Len(df) : df[k] = result[j] /\ Holds(df[k], bounds)
        /\ \A k \in 1..Len(df) :
              Holds(df[k], bounds) => \E j \in 1..Len(result) : result[j] = df[k]
        /\ Len(result) = Cardinality({k \in 1..Len(df) : Holds(df[k], bounds)})
        /\ \A j1, j2 \in 1..Len(result) :
              j1 < j2 => PosIn(df, result[j1]["url"]) < PosIn(df, result[j2]["url"])

\* Two rows and six bounds, two of them met with equality: the first row
\* falls to the minimum of stars, the second is kept.
C6_Witness ==
    /\ pc = "filtered"
    /\ Len(df) = 2
    /\ \A c \in DOMAIN bounds : bounds[c].given
    /\ df[2]["stars"] = bounds.min_stars.value
    /\ df[2]["forks"] = bounds.max_forks.value
    /\ df[1]["stars"] < bounds.min_stars.value
    /\ result = <<df[2]>>

\* ------------------------------------------- the filter, called again
\* The bound b2 is at least as tight as b1: a minimum raised or added.
TighterMin(b1, b2) == b1.given => (b2.given /\ b2.value >= b1.value)

\* ... a maximum lowered or added.
TighterMax(b1, b2) == b1.given => (b2.given /\ b2.value <= b1.value)

\* Every bound of b2 is at least as tight as that of b1.
Tighter(b1, b2) ==
    /\ TighterMin(b1.min_stars, b2.min_stars)
    /\ TighterMax(b1.max_stars, b2.max_stars)
    /\ TighterMin(b1.min_forks, b2.min_forks)
    /\ TighterMax(b1.max_forks, b2.max_forks)
    /\ TighterMin(b1.min_watchers, b2.min_watchers)
    /\ TighterMax(b1.max_watchers, b2.max_watchers)

\* awesome_analyzer.py:35-74: filter_data called on the same table with
\* bounds at least as tight as those of the call before.
FilterTighter ==
    /\ LoadFrame
    /\ pc = "filtered"
    /\ \E b \in AllBounds :
        /\ Tighter(bounds, b)
        /\ bounds' = b
        /\ result' = filter_data(df, b)
    /\ pc' = "tightened"
    /\ UNCHANGED <<df, sort_by, ascending, sorted>>

NextTighten ==
    \/ FilterData
    \/ FilterTighter

SpecTighten == InitFilter /\ [][NextTighten]_vars

RowSet(t) == {t[k] : k \in 1..Len(t)}

\* C8: when filter_data is called again with every bound at least as tight
\* (each minimum raised or added, each maximum lowered or added), the rows
\* returned are among the rows returned before, and no more in number.
C8_FilterMonotonic ==
    [][pc' = "tightened" =>
          /\ RowSet(result') \subseteq RowSet(result)
          /\ Len(result') <= Len(result)]_vars

\* A second call that raised one minimum and added one maximum, and that
\* returns one row of the two the looser bounds let through.
C8_Witness ==
    /\ pc = "tightened"
    /\ bounds.min_stars = [given |-> TRUE, value |-> 1]
    /\ bounds.max_forks = [given |-> TRUE, value |-> 0]
    /\ Len(df) = 2
    /\ Len(result) = 1
    /\ Len(filter_data(df, [NoBounds EXCEPT !.min_stars = [given |-> TRUE, value |-> 0]])) = 2

\* -------------------------------------------------------------- the sort
\* The table t in another order: s holds the rows of t, each once.
IsPermutation(s, t) ==
    /\ Len(s) = Len(t)
    /\ \A k \in 1..Len(t) : \E j \in 1..Len(s) : s[j] = t[k]

\* The orders of the rows of t.
Orders(t) ==
    {[k \in 1..Len(t) |-> t[f[k]]] :
        f \in {g \in [1..Len(t) -> 1..Len(t)] : Distinct(g)}}

\* The column is in the order asked for.
Ordered(s, by, asc) ==
    \A j \in 1..(Len(s) - 1) :
        IF asc THEN s[j][by] <= s[j + 1][by] ELSE s[j][by] >= s[j + 1][by]

\* The sort that ignores the direction asked for.
sort_values_ascending_only(t, by, asc) ==
    {s \in Orders(t) : Ordered(s, by, TRUE)}

\* awesome_analyzer.py:89: DataFrame.sort_values(by=..., ascending=...) with
\* its default kind, "quicksort", which is not a stable sort: any order of
\* the rows that puts the column in order may come out.
sort_values(t, by, asc) ==
    {s \in Orders(t) : Ordered(s, by, asc)}

\* awesome_analyzer.py:77-89, 147
SortData ==
    /\ LoadFrame
    /\ pc = "loaded"
    /\ \E by \in Columns, asc \in BOOLEAN :
        /\ sort_by' = by
        /\ ascending' = asc
        /\ sorted' \in sort_values(df, by, asc)
    /\ pc' = "sorted"
    /\ UNCHANGED <<df, bounds, result>>

NextSort == SortData

SpecSort == InitFilter /\ [][NextSort]_vars

\* Rows with equal values of the column are in the order of the input.
TiesKeepOrder(s, t, by) ==
    \A j1, j2 \in 1..Len(s) :
        (j1 < j2 /\ s[j1][by] = s[j2][by]) =>
            PosIn(t, s[j1]["url"]) < PosIn(t, s[j2]["url"])

=============================================================================
